---- MODULE Spec2Model ----
(***************************************************************************)
(* Cellular-automaton city traffic: the lattice of src/src/grid.py, the    *)
(* per-car update rule of src/src/car.py and the car placement of          *)
(* src/src/simulation.py.  Coordinates are (x, y) = (row, column) as in    *)
(* the numpy indexing of the source.                                       *)
(***************************************************************************)
EXTENDS Integers, Sequences, FiniteSets, TLC

VARIABLES
    size,             \* Grid.size
    blocks,           \* Grid.blocks
    rotary_method,    \* Grid.rotary_method / Simulation_2D.rotary_method
    max_speed,        \* Grid.max_speed
    grid,             \* Grid.grid, the dynamic lattice
    underlying_grid,  \* Grid.underlying_grid
    road_layout,      \* Grid.road_layout
    rotary_dict,      \* Grid.rotary_dict, the list of rings
    cars,             \* Grid.cars, in insertion order
    moved_distances,  \* moved_distances of Grid.update_movement
    id,               \* cars already moved in the tick under way (0: none)
    mover,            \* the car of the last Car.move() call (0: no call yet)
    distance,         \* what that call returned
    pc,               \* "init", then "run" (a simulation) or "test" (cars
                      \* built and moved directly, as test_simulation.py does)
    jammed,           \* Grid.jammed, the per-cell jam map
    road_max_speed,   \* Simulation_2D_NoUI.road_max_speed
    placing,          \* the locals of the create_cars call under way
    run,              \* the locals of run_single_simulation_generic
    sweep,            \* the locals of run_experiment_generic and its pool
    twin,             \* a second run with the same configuration and seed
    cluster_sizes     \* what analyze_cluster_sizes returned

\* the fields of the lattice and its cars
lattice == <<size, blocks, rotary_method, max_speed, grid, underlying_grid,
             road_layout, rotary_dict, cars, moved_distances, id, mover, distance,
             pc, jammed>>

\* the state of the layers above the lattice
rest == <<road_max_speed, placing, run, sweep, twin, cluster_sizes>>

vars == <<lattice, rest>>

(***************************************************************************)
(* Bounds of the model.                                                    *)
(***************************************************************************)
\* cars placed by create_cars
MaxCars == 3
\* cars built directly with Car(...)
MaxDirectCars == 3
\* cars on a lattice on which one is built with free_rotary_method = False
MaxFixedCars == 1
\* the largest speed ceiling, MAX_SPEED
MaxSpeedBound == 2

\* lattice sizes and block sizes the model builds: complete two-lane roads,
\* one rotary, the shape of Grid(15, 10) and Grid(10, 8) used by the callers
Geometries == {<<4, 4>>, <<5, 4>>}
Percentages == {0, 50, 100}

(***************************************************************************)
(* Cell codes and car flags (src.utils).                                   *)
(***************************************************************************)
BLOCKS_VALUE == "BLOCK"
VERTICAL_ROAD_VALUE_LEFT == "V_LEFT"
VERTICAL_ROAD_VALUE_RIGHT == "V_RIGHT"
HORIZONTAL_ROAD_VALUE_LEFT == "H_LEFT"
HORIZONTAL_ROAD_VALUE_RIGHT == "H_RIGHT"
INTERSECTION_DRIVE == "INTERSECTION"
CAR_HEAD == "CAR_HEAD"
ROAD_CELLS == {VERTICAL_ROAD_VALUE_LEFT, VERTICAL_ROAD_VALUE_RIGHT,
               HORIZONTAL_ROAD_VALUE_LEFT, HORIZONTAL_ROAD_VALUE_RIGHT}
INTERSECTION_CELLS == {INTERSECTION_DRIVE}
FREE_MOVEMENT == "FREE_MOVEMENT"
FIXED_DESTINATION == "FIXED_DESTINATION"
MIN_SPEED == 1
MAX_SPEED == MaxSpeedBound
None == "None"

lane_width == 2

(***************************************************************************)
(* Grid construction.                                                      *)
(***************************************************************************)
Cells(N) == (0 .. N - 1) \X (0 .. N - 1)

\* range(half_block, self.size, self.blocks)
LaneStarts(N, B) == {c \in 0 .. N - 1 : c >= B \div 2 /\ (c - B \div 2) % B = 0}

Min(S) == CHOOSE m \in S : \A n \in S : m <= n

\* the lane starts whose strip [c, min(c + lane_width, N)) holds index k
Covering(N, B, k) ==
    {c \in LaneStarts(N, B) : c <= k /\ k < c + lane_width /\ k < N}

create_vertical_lanes(g, N, B) ==
    LET lane_devider == lane_width \div 2
        val(p) == IF p[2] - Min(Covering(N, B, p[2])) < lane_devider
                  THEN VERTICAL_ROAD_VALUE_LEFT
                  ELSE VERTICAL_ROAD_VALUE_RIGHT
        hit(p) == g.grid[p] = BLOCKS_VALUE /\ Covering(N, B, p[2]) # {}
    IN  [grid |-> [p \in Cells(N) |-> IF hit(p) THEN val(p) ELSE g.grid[p]],
         underlying_grid |->
             [p \in Cells(N) |-> IF hit(p) THEN val(p) ELSE g.underlying_grid[p]]]

create_horizontal_lanes(g, N, B) ==
    LET lane_devider == lane_width \div 2
        val(p) == IF p[1] - Min(Covering(N, B, p[1])) < lane_devider
                  THEN HORIZONTAL_ROAD_VALUE_LEFT
                  ELSE HORIZONTAL_ROAD_VALUE_RIGHT
        hit(p) == g.grid[p] = BLOCKS_VALUE /\ Covering(N, B, p[1]) # {}
    IN  [grid |-> [p \in Cells(N) |-> IF hit(p) THEN val(p) ELSE g.grid[p]],
         underlying_grid |->
             [p \in Cells(N) |-> IF hit(p) THEN val(p) ELSE g.underlying_grid[p]]]

create_intersections(g, N, B) ==
    LET hit(p) == Covering(N, B, p[1]) # {} /\ Covering(N, B, p[2]) # {}
    IN  [grid |-> [p \in Cells(N) |-> IF hit(p) THEN INTERSECTION_DRIVE ELSE g.grid[p]],
         underlying_grid |->
             [p \in Cells(N) |->
                 IF hit(p) THEN INTERSECTION_DRIVE ELSE g.underlying_grid[p]]]

\* the ring appended for the rotary whose corner is (x0, y0)
Ring(x0, y0) == <<<<x0, y0>>, <<x0, y0 + 1>>, <<x0 + 1, y0 + 1>>, <<x0 + 1, y0>>>>

RECURSIVE SortedSeq(_)
SortedSeq(S) == IF S = {} THEN <<>> ELSE <<Min(S)>> \o SortedSeq(S \ {Min(S)})

RECURSIVE Flatten(_)
Flatten(ss) == IF ss = <<>> THEN <<>> ELSE Head(ss) \o Flatten(Tail(ss))

\* the rings in the order of the two nested loops of create_intersections
Rings(N, B) ==
    LET st == SortedSeq(LaneStarts(N, B))
    IN  Flatten([i \in 1 .. Len(st) |-> [j \in 1 .. Len(st) |-> Ring(st[i], st[j])]])

roads(g, N, B) ==
    create_intersections(
        create_horizontal_lanes(create_vertical_lanes(g, N, B), N, B), N, B)

\* Grid.__init__: the fields after construction
Grid_init(N, B, method, speed) ==
    LET blank == [grid |-> [p \in Cells(N) |-> BLOCKS_VALUE],
                  underlying_grid |-> [p \in Cells(N) |-> BLOCKS_VALUE]]
        built == roads(blank, N, B)
    IN  [size |-> N, blocks |-> B, rotary_method |-> method, max_speed |-> speed,
         grid |-> built.grid, underlying_grid |-> built.underlying_grid,
         road_layout |-> built.grid, rotary_dict |-> Rings(N, B), cars |-> <<>>,
         jammed |-> [p \in Cells(N) |-> 0]]

\* the layers above the lattice are not in use
NotInUse == [phase |-> "idle"]

Idle ==
    /\ road_max_speed = 0
    /\ placing = NotInUse
    /\ run = NotInUse
    /\ sweep = NotInUse
    /\ twin = NotInUse
    /\ cluster_sizes = <<>>

Init ==
    \E geo \in Geometries, method \in {FREE_MOVEMENT, FIXED_DESTINATION},
       speed \in MIN_SPEED .. MAX_SPEED :
        LET G == Grid_init(geo[1], geo[2], method, speed)
        IN  /\ size = G.size
            /\ blocks = G.blocks
            /\ rotary_method = G.rotary_method
            /\ max_speed = G.max_speed
            /\ grid = G.grid
            /\ underlying_grid = G.underlying_grid
            /\ road_layout = G.road_layout
            /\ rotary_dict = G.rotary_dict
            /\ cars = G.cars
            /\ moved_distances = <<>>
            /\ id = 0
            /\ mover = 0
            /\ distance = 0
            /\ pc = "init"
            /\ jammed = G.jammed
            /\ Idle

(***************************************************************************)
(* Car (src/src/car.py).  The operators take the Grid fields a car reads   *)
(* or writes as a record G = [grid, road_layout, underlying_grid].         *)
(***************************************************************************)
\* Car.__init__, for a position whose cell is drivable (otherwise ValueError);
\* random_speed is the draw of np.random.randint(MIN_SPEED, MAX_SPEED + 1)
Car_init(G, position, free_rotary_method, follow_limit, random_speed) ==
    LET road_type == G.grid[position]
    IN  [G |-> [G EXCEPT !.grid[position] = CAR_HEAD],
         car |-> [head_position |-> position,
                  road_type |-> road_type,
                  on_rotary |-> road_type \in INTERSECTION_CELLS,
                  flag |-> IF free_rotary_method THEN FREE_MOVEMENT
                           ELSE FIXED_DESTINATION,
                  road_destination |-> None,
                  max_speed |-> IF follow_limit THEN max_speed ELSE random_speed]]

\* variant: positions are clamped to the lattice instead of wrapped
get_boundary_pos_clamped(x, y) ==
    <<IF x < 0 THEN 0 ELSE IF x >= size THEN size - 1 ELSE x,
      IF y < 0 THEN 0 ELSE IF y >= size THEN size - 1 ELSE y>>

\* variant: the cell in front is read from the layout, which shows no cars
get_infront_layout(G, possible_pos) == G.road_layout[possible_pos]

get_boundary_pos(x, y) == <<x % size, y % size>>

get_infront(G, possible_pos) == G.grid[possible_pos]

\* variant: the car looks at the cell in front instead of the diagonal cell
get_diagonal_infront(G, car, possible_pos) == G.grid[possible_pos]

\* variant: the diagonal cell is taken on the side of the rotary exit
get_diagonal_exit_side(G, car, possible_pos) ==
    LET infront_x == possible_pos[1]
        infront_y == possible_pos[2]
        pos == CASE car.road_type = VERTICAL_ROAD_VALUE_RIGHT ->
                        get_boundary_pos(infront_x, infront_y + 1)
                 [] car.road_type = VERTICAL_ROAD_VALUE_LEFT ->
                        get_boundary_pos(infront_x, infront_y - 1)
                 [] car.road_type = HORIZONTAL_ROAD_VALUE_RIGHT ->
                        get_boundary_pos(infront_x + 1, infront_y)
                 [] car.road_type = HORIZONTAL_ROAD_VALUE_LEFT ->
                        get_boundary_pos(infront_x - 1, infront_y)
                 [] OTHER -> possible_pos
    IN  G.grid[pos]

get_diagonal(G, car, possible_pos) ==
    LET infront_x == possible_pos[1]
        infront_y == possible_pos[2]
        pos == CASE car.road_type = VERTICAL_ROAD_VALUE_RIGHT ->
                        get_boundary_pos(infront_x, infront_y - 1)
                 [] car.road_type = VERTICAL_ROAD_VALUE_LEFT ->
                        get_boundary_pos(infront_x, infront_y + 1)
                 [] car.road_type = HORIZONTAL_ROAD_VALUE_RIGHT ->
                        get_boundary_pos(infront_x - 1, infront_y)
                 [] car.road_type = HORIZONTAL_ROAD_VALUE_LEFT ->
                        get_boundary_pos(infront_x + 1, infront_y)
                 [] OTHER -> possible_pos
    IN  G.grid[pos]

\* get_right: the cell to the right of the car and the road type of that exit;
\* a road_type outside the four road kinds leaves road_type unbound in the
\* source (no case here)
get_right(car, possible_pos) ==
    LET right_x == possible_pos[1]
        right_y == possible_pos[2]
    IN  CASE car.road_type = VERTICAL_ROAD_VALUE_RIGHT ->
                [possible_pos |-> get_boundary_pos(right_x, right_y + 1),
                 road_type |-> HORIZONTAL_ROAD_VALUE_RIGHT]
          [] car.road_type = VERTICAL_ROAD_VALUE_LEFT ->
                [possible_pos |-> get_boundary_pos(right_x, right_y - 1),
                 road_type |-> HORIZONTAL_ROAD_VALUE_LEFT]
          [] car.road_type = HORIZONTAL_ROAD_VALUE_RIGHT ->
                [possible_pos |-> get_boundary_pos(right_x + 1, right_y),
                 road_type |-> VERTICAL_ROAD_VALUE_LEFT]
          [] car.road_type = HORIZONTAL_ROAD_VALUE_LEFT ->
                [possible_pos |-> get_boundary_pos(right_x - 1, right_y),
                 road_type |-> VERTICAL_ROAD_VALUE_RIGHT]

\* variant: the old cell is not restored
set_car_location_keep(G, car, new_pos) ==
    [G |-> [G EXCEPT !.grid = [G.grid EXCEPT ![new_pos] = CAR_HEAD]],
     car |-> [car EXCEPT !.head_position = new_pos]]

\* variant: the old cell is restored from the car's road type
set_car_location_by_type(G, car, new_pos) ==
    LET old_pos == car.head_position
    IN  [G |-> [G EXCEPT !.grid = [G.grid EXCEPT ![new_pos] = CAR_HEAD,
                                                ![old_pos] = car.road_type]],
         car |-> [car EXCEPT !.head_position = new_pos]]

\* set_car_location: the new cell is written first, then the old one restored
set_car_location(G, car, new_pos) ==
    LET old_pos == car.head_position
    IN  [G |-> [G EXCEPT !.grid = [G.grid EXCEPT ![new_pos] = CAR_HEAD,
                                                ![old_pos] = G.road_layout[old_pos]]],
         car |-> [car EXCEPT !.head_position = new_pos]]

\* variant: the road type of the car is left as it was
set_car_road_type_same(car, road_type) == car

set_car_road_type(car, road_type) == [car EXCEPT !.road_type = road_type]

set_car_rotary(car, rotary) == [car EXCEPT !.on_rotary = rotary]

\* set_random_desination: choice is the draw of np.random.choice(ROAD_CELLS)
set_random_desination(car, choice) ==
    IF car.flag = FIXED_DESTINATION
    THEN [car EXCEPT !.road_destination = choice]
    ELSE car

\* the cell one step ahead of (current_x, current_y) for the car's road type
\* (the if/elif chain at the top of the loop of _move_straight)
StepAhead(car, current, new) ==
    CASE car.road_type = VERTICAL_ROAD_VALUE_RIGHT ->
            get_boundary_pos(current[1] - 1, current[2])
      [] car.road_type = VERTICAL_ROAD_VALUE_LEFT ->
            get_boundary_pos(current[1] + 1, current[2])
      [] car.road_type = HORIZONTAL_ROAD_VALUE_RIGHT ->
            get_boundary_pos(current[1], current[2] + 1)
      [] car.road_type = HORIZONTAL_ROAD_VALUE_LEFT ->
            get_boundary_pos(current[1], current[2] - 1)
      [] OTHER -> new

\* the for loop of _move_straight with `left` iterations to go: how it ends
\* ("rotary": the early return on an intersection cell; "end": loop left)
RECURSIVE StraightLoop(_, _, _, _, _, _, _)
StraightLoop(G, car, left, current, new, last_open_space, steps) ==
    IF left = 0
    THEN [kind |-> "end", pos |-> last_open_space, steps |-> steps]
    ELSE LET nxt == StepAhead(car, current, new)
             possible_cell == get_infront(G, nxt)
             diagonal_cell == get_diagonal(G, car, nxt)
         IN  IF possible_cell = CAR_HEAD
             THEN [kind |-> "end", pos |-> last_open_space, steps |-> steps]
             ELSE IF possible_cell \in INTERSECTION_CELLS /\ diagonal_cell = CAR_HEAD
             THEN [kind |-> "end", pos |-> last_open_space, steps |-> steps]
             ELSE IF possible_cell \in INTERSECTION_CELLS
             THEN [kind |-> "rotary", pos |-> nxt, steps |-> steps + 1]
             ELSE StraightLoop(G, car, left - 1, nxt, nxt,
                               IF possible_cell \in ROAD_CELLS
                               THEN nxt ELSE last_open_space,
                               steps + 1)

\* variant: a car held before an intersection cell is flagged on_rotary all
\* the same
_move_straight_flags_held(G, car, choice) ==
    LET r == StraightLoop(G, car, car.max_speed, car.head_position,
                          car.head_position, car.head_position, 0)
        ahead == get_infront(G, StepAhead(car, car.head_position, car.head_position))
    IN  IF r.kind = "rotary"
        THEN LET c1 == set_random_desination(set_car_rotary(car, TRUE), choice)
                 m == set_car_location(G, c1, r.pos)
             IN  [G |-> m.G, car |-> m.car, success |-> TRUE, steps |-> r.steps]
        ELSE IF r.pos # car.head_position
        THEN LET m == set_car_location(G, car, r.pos)
             IN  [G |-> m.G, car |-> m.car, success |-> TRUE, steps |-> r.steps]
        ELSE [G |-> G,
              car |-> set_car_rotary(car, ahead \in INTERSECTION_CELLS),
              success |-> FALSE, steps |-> r.steps]

_move_straight(G, car, choice) ==
    LET r == StraightLoop(G, car, car.max_speed, car.head_position,
                          car.head_position, car.head_position, 0)
    IN  IF r.kind = "rotary"
        THEN LET c1 == set_random_desination(set_car_rotary(car, TRUE), choice)
                 m == set_car_location(G, c1, r.pos)
             IN  [G |-> m.G, car |-> m.car, success |-> TRUE, steps |-> r.steps]
        ELSE IF r.pos # car.head_position
        THEN LET m == set_car_location(G, car, r.pos)
             IN  [G |-> m.G, car |-> m.car, success |-> TRUE, steps |-> r.steps]
        ELSE [G |-> G, car |-> car, success |-> FALSE, steps |-> r.steps]

\* the next ring cell and the road type the car takes on it
RotaryAhead(car) ==
    LET current_x == car.head_position[1]
        current_y == car.head_position[2]
    IN  CASE car.road_type = VERTICAL_ROAD_VALUE_RIGHT ->
                [possible_pos |-> get_boundary_pos(current_x - 1, current_y),
                 possible_road_type |-> HORIZONTAL_ROAD_VALUE_LEFT]
          [] car.road_type = VERTICAL_ROAD_VALUE_LEFT ->
                [possible_pos |-> get_boundary_pos(current_x + 1, current_y),
                 possible_road_type |-> HORIZONTAL_ROAD_VALUE_RIGHT]
          [] car.road_type = HORIZONTAL_ROAD_VALUE_RIGHT ->
                [possible_pos |-> get_boundary_pos(current_x, current_y + 1),
                 possible_road_type |-> VERTICAL_ROAD_VALUE_RIGHT]
          [] car.road_type = HORIZONTAL_ROAD_VALUE_LEFT ->
                [possible_pos |-> get_boundary_pos(current_x, current_y - 1),
                 possible_road_type |-> VERTICAL_ROAD_VALUE_LEFT]

_move_rotary(G, car) ==
    LET a == RotaryAhead(car)
        possible_cell == get_infront(G, a.possible_pos)
    IN  IF possible_cell = CAR_HEAD
        THEN [G |-> G, car |-> car, success |-> FALSE]
        ELSE IF possible_cell # car.road_destination /\ car.flag = FIXED_DESTINATION
        THEN [G |-> G, car |-> car, success |-> FALSE]
        ELSE IF possible_cell \in ROAD_CELLS \/ possible_cell \in INTERSECTION_CELLS
        THEN LET m == set_car_location(G, car, a.possible_pos)
             IN  [G |-> m.G, car |-> set_car_road_type(m.car, a.possible_road_type),
                  success |-> TRUE]
        ELSE [G |-> G, car |-> car, success |-> FALSE]

\* variant: leaving the rotary does not clear on_rotary
_exit_rotary_keep(G, car) ==
    LET r == get_right(car, car.head_position)
        possible_cell == get_infront(G, r.possible_pos)
    IN  IF possible_cell \notin ROAD_CELLS /\ possible_cell \notin INTERSECTION_CELLS
        THEN [G |-> G, car |-> car, success |-> FALSE]
        ELSE IF possible_cell = CAR_HEAD
        THEN [G |-> G, car |-> car, success |-> FALSE]
        ELSE IF car.flag = FIXED_DESTINATION /\ possible_cell # car.road_destination
        THEN [G |-> G, car |-> car, success |-> FALSE]
        ELSE LET m == set_car_location(G, car, r.possible_pos)
             IN  [G |-> m.G, car |-> set_car_road_type(m.car, r.road_type),
                  success |-> TRUE]

_exit_rotary(G, car) ==
    LET r == get_right(car, car.head_position)
        possible_cell == get_infront(G, r.possible_pos)
    IN  IF possible_cell \notin ROAD_CELLS /\ possible_cell \notin INTERSECTION_CELLS
        THEN [G |-> G, car |-> car, success |-> FALSE]
        ELSE IF possible_cell = CAR_HEAD
        THEN [G |-> G, car |-> car, success |-> FALSE]
        ELSE IF car.flag = FIXED_DESTINATION /\ possible_cell # car.road_destination
        THEN [G |-> G, car |-> car, success |-> FALSE]
        ELSE LET c1 == IF possible_cell \notin INTERSECTION_CELLS
                       THEN set_car_rotary(car, FALSE) ELSE car
                 m == set_car_location(G, c1, r.possible_pos)
             IN  [G |-> m.G, car |-> set_car_road_type(m.car, r.road_type),
                  success |-> TRUE]

\* variant: a car on a rotary tries the ring step before the exit
move_ring_first(G, car, choice) ==
    LET r == IF car.on_rotary
             THEN LET e == _move_rotary(G, car)
                      s == IF e.success THEN e ELSE _exit_rotary(G, car)
                  IN  [G |-> s.G, car |-> s.car, success |-> s.success, steps |-> 0]
             ELSE _move_straight(G, car, choice)
    IN  [G |-> r.G, car |-> r.car,
         distance |-> IF ~r.success THEN 0
                      ELSE IF r.car.on_rotary THEN 1
                      ELSE r.steps]

\* variant: a rotary entry returns the steps taken, like any straight move
move_entry_steps(G, car, choice) ==
    LET r == IF car.on_rotary
             THEN LET e == _exit_rotary(G, car)
                      s == IF e.success THEN e ELSE _move_rotary(G, car)
                  IN  [G |-> s.G, car |-> s.car, success |-> s.success, steps |-> 0]
             ELSE _move_straight(G, car, choice)
    IN  [G |-> r.G, car |-> r.car,
         distance |-> IF ~r.success THEN 0
                      ELSE IF r.car.on_rotary /\ car.on_rotary THEN 1
                      ELSE r.steps]

\* Car.move: the grid and the car afterwards, and the returned distance
move(G, car, choice) ==
    LET r == IF car.on_rotary
             THEN LET e == _exit_rotary(G, car)
                      s == IF e.success THEN e ELSE _move_rotary(G, car)
                  IN  [G |-> s.G, car |-> s.car, success |-> s.success, steps |-> 0]
             ELSE _move_straight(G, car, choice)
    IN  [G |-> r.G, car |-> r.car,
         distance |-> IF ~r.success THEN 0
                      ELSE IF r.car.on_rotary THEN 1
                      ELSE r.steps]

(***************************************************************************)
(* Grid.add_cars and Grid.update_movement (src/src/grid.py).  The for loop *)
(* of update_movement is taken one iteration at a time: id is the number   *)
(* of cars already moved in the tick under way, 0 between two ticks.       *)
(***************************************************************************)
add_cars(old, new) == old \o new

GridFields == [grid |-> grid, road_layout |-> road_layout,
               underlying_grid |-> underlying_grid]

\* what the random draw of car c is taken from in its update
Draws(c) == IF c.flag = FIXED_DESTINATION /\ ~c.on_rotary THEN ROAD_CELLS ELSE {None}

\* variant: the loop runs over the cars in reverse insertion order
LoopCar_reversed(done) == Len(cars) - done

\* the car the loop of update_movement handles after `done` cars
LoopCar(done) == done + 1

\* one iteration of the loop: distance = car.move(); moved_distances[id] = distance
\* (the first iteration follows moved_distances = np.zeros(len(self.cars)))
update_movement ==
    /\ pc = "run"
    /\ id < Len(cars)
    /\ LET k == LoopCar(id)
       IN  \E choice \in Draws(cars[k]) :
            LET r == move(GridFields, cars[k], choice)
                before == IF id = 0 THEN [i \in 1 .. Len(cars) |-> 0]
                          ELSE moved_distances
            IN  /\ grid' = r.G.grid
                /\ road_layout' = r.G.road_layout
                /\ underlying_grid' = r.G.underlying_grid
                /\ cars' = [cars EXCEPT ![k] = r.car]
                /\ moved_distances' = [before EXCEPT ![k] = r.distance]
                /\ distance' = r.distance
                /\ mover' = k
    /\ id' = IF id + 1 = Len(cars) THEN 0 ELSE id + 1
    /\ UNCHANGED pc
    /\ UNCHANGED <<size, blocks, rotary_method, max_speed, rotary_dict, jammed>>
    /\ UNCHANGED rest

(***************************************************************************)
(* Simulation_2D.create_cars (src/src/simulation.py), followed by the      *)
(* grid.add_cars(cars) of its callers.                                     *)
(***************************************************************************)
\* variant: the cars are built with the rotary method of the simulation
RECURSIVE CreateLoop_by_method(_, _, _, _, _, _, _)
CreateLoop_by_method(G, cs, i, car_count, follow_limit_indices, positions, speeds) ==
    IF i >= car_count
    THEN [G |-> G, cars |-> cs]
    ELSE LET follow_limit == i \in follow_limit_indices
             c == Car_init(G, positions[i + 1], rotary_method = FREE_MOVEMENT,
                           follow_limit, speeds[i + 1])
         IN  CreateLoop_by_method(c.G, Append(cs, c.car), i + 1, car_count,
                                  follow_limit_indices, positions, speeds)

\* the for loop of create_cars from index i (0-based) on
RECURSIVE CreateLoop(_, _, _, _, _, _, _)
CreateLoop(G, cs, i, car_count, follow_limit_indices, positions, speeds) ==
    IF i >= car_count
    THEN [G |-> G, cars |-> cs]
    ELSE LET follow_limit == i \in follow_limit_indices
             c == Car_init(G, positions[i + 1], TRUE, follow_limit, speeds[i + 1])
         IN  CreateLoop(c.G, Append(cs, c.car), i + 1, car_count,
                        follow_limit_indices, positions, speeds)

RoadPositions == {p \in Cells(size) : grid[p] \in ROAD_CELLS}

create_cars ==
    /\ pc = "init"
    /\ cars = <<>>
    /\ \E car_count \in 1 .. MaxCars, car_percentage_max_speed \in Percentages :
        LET follow_limit_count == (car_count * car_percentage_max_speed) \div 100
        IN  \E follow_limit_indices \in SUBSET (0 .. car_count - 1),
               positions \in [1 .. car_count -> RoadPositions],
               speeds \in [1 .. car_count -> MIN_SPEED .. MAX_SPEED] :
                /\ Cardinality(follow_limit_indices) = follow_limit_count
                \* the while loop redraws until the cell is a free road cell
                /\ \A i, j \in 1 .. car_count : i # j => positions[i] # positions[j]
                \* a compliant car makes no speed draw
                /\ \A i \in 1 .. car_count :
                       (i - 1) \in follow_limit_indices => speeds[i] = MIN_SPEED
                /\ LET r == CreateLoop(GridFields, <<>>, 0, car_count,
                                       follow_limit_indices, positions, speeds)
                   IN  /\ grid' = r.G.grid
                       /\ road_layout' = r.G.road_layout
                       /\ underlying_grid' = r.G.underlying_grid
                       /\ cars' = add_cars(cars, r.cars)
    /\ pc' = "run"
    /\ UNCHANGED <<size, blocks, rotary_method, max_speed, rotary_dict,
                   moved_distances, id, mover, distance, jammed>>
    /\ UNCHANGED rest

(***************************************************************************)
(* The Car API used directly, as src/src/test_simulation.py does: a car    *)
(* built with Car(grid, position, free_rotary_method, follow_limit) on a   *)
(* road cell and handed to grid.add_cars, and single calls of car.move().  *)
(***************************************************************************)
new_car ==
    /\ pc \in {"init", "test"}
    /\ Len(cars) < MaxDirectCars
    /\ \E position \in RoadPositions, free_rotary_method \in BOOLEAN,
          follow_limit \in BOOLEAN, random_speed \in MIN_SPEED .. MAX_SPEED :
            /\ follow_limit => random_speed = MIN_SPEED
            /\ (~free_rotary_method
                \/ \E i \in 1 .. Len(cars) : cars[i].flag = FIXED_DESTINATION)
                    => Len(cars) < MaxFixedCars
            /\ LET c == Car_init(GridFields, position, free_rotary_method,
                                 follow_limit, random_speed)
               IN  /\ grid' = c.G.grid
                   /\ road_layout' = c.G.road_layout
                   /\ underlying_grid' = c.G.underlying_grid
                   /\ cars' = add_cars(cars, <<c.car>>)
    /\ pc' = "test"
    /\ UNCHANGED <<size, blocks, rotary_method, max_speed, rotary_dict,
                   moved_distances, id, mover, distance, jammed>>
    /\ UNCHANGED rest

car_move ==
    /\ pc = "test"
    /\ \E k \in 1 .. Len(cars) :
        /\ mover' = k
        /\ \E choice \in Draws(cars[k]) :
            LET r == move(GridFields, cars[k], choice)
            IN  /\ grid' = r.G.grid
                /\ road_layout' = r.G.road_layout
                /\ underlying_grid' = r.G.underlying_grid
                /\ cars' = [cars EXCEPT ![k] = r.car]
                /\ distance' = r.distance
    /\ UNCHANGED <<size, blocks, rotary_method, max_speed, rotary_dict,
                   moved_distances, id, pc, jammed>>
    /\ UNCHANGED rest

\* a simulation run: create_cars, then ticks
Next == create_cars \/ update_movement

Spec == Init /\ [][Next]_vars

\* the Car API used directly
NextCar == new_car \/ car_move

\* the lattice a car is put on directly: Grid(4, 4), with one rotary
CarGeometry == <<4, 4>>

InitCar ==
    /\ \E method \in {FREE_MOVEMENT, FIXED_DESTINATION},
          speed \in MIN_SPEED .. MAX_SPEED :
           LET G == Grid_init(CarGeometry[1], CarGeometry[2], method, speed)
           IN  /\ size = G.size
               /\ blocks = G.blocks
               /\ rotary_method = G.rotary_method
               /\ max_speed = G.max_speed
               /\ grid = G.grid
               /\ underlying_grid = G.underlying_grid
               /\ road_layout = G.road_layout
               /\ rotary_dict = G.rotary_dict
               /\ cars = G.cars
               /\ jammed = G.jammed
    /\ moved_distances = <<>>
    /\ id = 0
    /\ mover = 0
    /\ distance = 0
    /\ pc = "init"
    /\ Idle

SpecCar == InitCar /\ [][NextCar]_vars

(***************************************************************************)
(* A headless simulation (Simulation_2D_NoUI, src/src/simulation.py).      *)
(***************************************************************************)
\* the default of the parameter max_speed of Grid.__init__
Grid_default_max_speed == 2

\* the lattice variables hold the fields of the freshly built Grid G
LatticeIs(G) ==
    /\ size = G.size
    /\ blocks = G.blocks
    /\ rotary_method = G.rotary_method
    /\ max_speed = G.max_speed
    /\ grid = G.grid
    /\ underlying_grid = G.underlying_grid
    /\ road_layout = G.road_layout
    /\ rotary_dict = G.rotary_dict
    /\ cars = G.cars
    /\ jammed = G.jammed
    /\ moved_distances = <<>>
    /\ id = 0
    /\ mover = 0
    /\ distance = 0

\* Simulation_2D_NoUI.__init__: the Grid is built from grid_size, road_length
\* and rotary_method; road_max_speed is kept in a field of the simulation
Simulation_2D_NoUI_init ==
    \E geo \in Geometries, method \in {FREE_MOVEMENT, FIXED_DESTINATION},
       speed \in MIN_SPEED .. MAX_SPEED :
        /\ LatticeIs(Grid_init(geo[1], geo[2], method, Grid_default_max_speed))
        /\ pc = "init"
        /\ road_max_speed = speed
        /\ placing = NotInUse
        /\ run = NotInUse
        /\ sweep = NotInUse
        /\ twin = NotInUse
        /\ cluster_sizes = <<>>

\* start_simulation: create_cars, add_cars, then max_iter ticks
NextHeadless == create_cars \/ update_movement

SpecHeadless == Simulation_2D_NoUI_init /\ [][NextHeadless]_vars

(***************************************************************************)
(* One run of the experiment driver: the loop of                           *)
(* run_single_simulation_generic (src/src/experiment.py).  What a tick     *)
(* does to the lattice is left out here: the loop reads only               *)
(* sum(moved_cars) and the tick's average_velocity, which are its inputs.  *)
(* Velocities are kept in thousandths of a cell per tick.                  *)
(***************************************************************************)
\* step counts of the runs
StepCounts == {60, 100}
\* sum(moved_cars) of one tick of a run with one car
Movements == {0, 1}

gridlock_threshold == 50

\* int(steps * 0.2)
warmup_steps_of(steps) == (steps * 2) \div 10

\* the lattice of a run, with no car on it
RunLattice ==
    /\ LatticeIs(Grid_init(4, 4, FREE_MOVEMENT, Grid_default_max_speed))
    /\ pc = "experiment"

\* np.mean of a list given by its sum and length, 0.0 for the empty list
mean(total, count) == IF count = 0 THEN 0 ELSE total \div count

\* the locals before the first tick; steady_state_fraction = 1 as in
\* get_experiment_config, so that steady_state_start = warmup_steps
run_begin(steps) ==
    [phase |-> "loop", steps |-> steps, warmup_steps |-> warmup_steps_of(steps),
     steady_state_start |-> warmup_steps_of(steps),
     step |-> 0, zero_movement_count |-> 0,
     all_velocities |-> [total |-> 0, count |-> 0],
     metrics_history |-> [total |-> 0, count |-> 0],
     last_movement |-> -1,
     result |-> [gridlocked |-> FALSE, velocity |-> 0]]

InitRun ==
    /\ RunLattice
    /\ road_max_speed = 0
    /\ placing = NotInUse
    /\ \E steps \in StepCounts : run = run_begin(steps)
    /\ sweep = NotInUse
    /\ twin = NotInUse
    /\ cluster_sizes = <<>>

\* the metric of DensityTracker.update for a tick of one car
average_velocity(total_movement) == IF total_movement > 0 THEN 1000 ELSE 0

\* one iteration of `for step in range(steps)`
run_tick ==
    /\ run.phase = "loop"
    /\ run.step < run.steps
    /\ \E total_movement \in Movements :
        LET v == average_velocity(total_movement)
            all == IF run.step >= run.warmup_steps
                   THEN [total |-> run.all_velocities.total + v,
                         count |-> run.all_velocities.count + 1]
                   ELSE run.all_velocities
            zero == IF total_movement = 0 THEN run.zero_movement_count + 1 ELSE 0
            seen == [run EXCEPT !.all_velocities = all,
                                !.zero_movement_count = zero,
                                !.last_movement =
                                    IF total_movement = 0 THEN @ ELSE run.step]
        IN  IF run.step >= run.warmup_steps /\ zero >= gridlock_threshold
            THEN run' = [seen EXCEPT
                            !.phase = "returned",
                            !.result = [gridlocked |-> TRUE,
                                        velocity |-> mean(all.total, all.count)]]
            ELSE run' = [seen EXCEPT
                            !.step = @ + 1,
                            !.metrics_history =
                                IF run.step >= run.steady_state_start
                                THEN [total |-> @.total + v, count |-> @.count + 1]
                                ELSE @]
    /\ UNCHANGED <<lattice, road_max_speed, placing, sweep, twin, cluster_sizes>>

\* the loop ran out: the steady-state average is returned
run_return ==
    /\ run.phase = "loop"
    /\ run.step = run.steps
    /\ run' = [run EXCEPT
                  !.phase = "returned",
                  !.result = [gridlocked |-> FALSE,
                              velocity |-> mean(run.metrics_history.total,
                                                run.metrics_history.count)]]
    /\ UNCHANGED <<lattice, road_max_speed, placing, sweep, twin, cluster_sizes>>

NextRun == run_tick \/ run_return

SpecRun == InitRun /\ [][NextRun]_vars

(***************************************************************************)
(* A run under the fractions of a sweep: run_experiment_generic takes      *)
(* warmup_fraction and steady_state_fraction (in percent here) and hands   *)
(* steady_state_fraction on to the run.                                    *)
(***************************************************************************)
WarmupFractions == {20, 50}
SteadyStateFractions == {0, 50, 100}

Max(S) == CHOOSE m \in S : \A n \in S : n <= m

\* steady_state_start as the run computes it
steady_state_start_of(steps, steady_state_fraction) ==
    LET first == (steps * (100 - steady_state_fraction)) \div 100
        clamped == Min({first, steps - 1})
    IN  Max({clamped, warmup_steps_of(steps)})

\* the locals before the first tick of a run of a sweep
run_begin_in_sweep(steps, warmup_fraction, steady_state_fraction) ==
    [run_begin(steps) EXCEPT
        !.steady_state_start = steady_state_start_of(steps, steady_state_fraction)]
    @@ [warmup_fraction |-> warmup_fraction,
        steady_state_fraction |-> steady_state_fraction]

InitSteady ==
    /\ RunLattice
    /\ road_max_speed = 0
    /\ placing = NotInUse
    /\ \E warmup_fraction \in WarmupFractions,
          steady_state_fraction \in SteadyStateFractions :
        run = run_begin_in_sweep(60, warmup_fraction, steady_state_fraction)
    /\ sweep = NotInUse
    /\ twin = NotInUse
    /\ cluster_sizes = <<>>

NextSteady == run_tick \/ run_return

SpecSteady == InitSteady /\ [][NextSteady]_vars

(***************************************************************************)
(* The sweep of run_experiment_generic (src/src/experiment.py): for every  *)
(* axis value and every density in ascending order a batch of              *)
(* n_simulations runs goes through mp.Pool(n_processes).imap.  A run is    *)
(* taken by what it returns or raises.                                     *)
(***************************************************************************)
\* n_simulations
SweepReplicates == 2
\* param_iter, the axis values
AxisValues == <<1, 2>>
\* kwargs["densities"] as handed in
DensityLists == {<<5, 15>>, <<15, 5>>}
\* n_processes = max(1, mp.cpu_count() - 1)
PoolSizes == {1, 2}
\* what a run returns: gridlocked and velocity (in thousandths)
RunOutcomes == [gridlocked : BOOLEAN, velocity : {0, 500}]

Range(f) == {f[i] : i \in DOMAIN f}

\* sorted(kwargs["densities"])
sorted(densities) == SortedSeq(Range(densities))

RECURSIVE SumVelocity(_)
SumVelocity(results) ==
    IF results = <<>> THEN 0
    ELSE Head(results).velocity + SumVelocity(Tail(results))

InitSweep ==
    /\ RunLattice
    /\ road_max_speed = 0
    /\ placing = NotInUse
    /\ run = NotInUse
    /\ \E densities \in DensityLists, n_processes \in PoolSizes :
        sweep = [phase |-> "loop",
                 param_iter |-> AxisValues,
                 sorted_densities |-> sorted(densities),
                 n_simulations |-> SweepReplicates,
                 n_processes |-> n_processes,
                 p |-> 1, d |-> 1,
                 gridlocked_states |-> [a \in Range(AxisValues) |-> FALSE],
                 tasks |-> <<>>,
                 batch_results |-> <<>>,
                 raw_results |-> <<>>]
    /\ twin = NotInUse
    /\ cluster_sizes = <<>>

\* the loops move on to the next density, or to the next axis value
NextDensity(sw) ==
    IF sw.d < Len(sw.sorted_densities)
    THEN [sw EXCEPT !.d = @ + 1]
    ELSE [sw EXCEPT !.p = @ + 1, !.d = 1]

\* `break`: the loops move on to the next axis value
NextParam(sw) == [sw EXCEPT !.p = @ + 1, !.d = 1]

\* the head of the inner loop: skip the density, or hand its batch to a pool
pool_open ==
    /\ sweep.phase = "loop"
    /\ sweep.p <= Len(sweep.param_iter)
    /\ IF sweep.gridlocked_states[sweep.param_iter[sweep.p]]
       THEN sweep' = NextDensity(sweep)
       ELSE sweep' = [sweep EXCEPT
                        !.phase = "batch",
                        !.tasks = [i \in 1 .. sweep.n_simulations |->
                                      [state |-> "queued",
                                       result |-> [sim_index |-> i - 1]]],
                        !.batch_results = <<>>]
    /\ UNCHANGED <<lattice, road_max_speed, placing, run, twin, cluster_sizes>>

Running(sw) == {i \in DOMAIN sw.tasks : sw.tasks[i].state = "running"}
Queued(sw) == {i \in DOMAIN sw.tasks : sw.tasks[i].state = "queued"}

\* an idle worker takes the next task of the batch
worker_start ==
    /\ sweep.phase = "batch"
    /\ Cardinality(Running(sweep)) < sweep.n_processes
    /\ Queued(sweep) # {}
    /\ sweep' = [sweep EXCEPT !.tasks[Min(Queued(sweep))].state = "running"]
    /\ UNCHANGED <<lattice, road_max_speed, placing, run, twin, cluster_sizes>>

\* run_single_simulation_with_type returns in a worker
worker_finish ==
    /\ sweep.phase = "batch"
    /\ \E i \in Running(sweep), o \in RunOutcomes :
        sweep' = [sweep EXCEPT
                    !.tasks[i] =
                        [state |-> "done",
                         result |-> [sim_index |-> i - 1,
                                     param |-> sweep.param_iter[sweep.p],
                                     density |-> sweep.sorted_densities[sweep.d],
                                     velocity |-> o.velocity,
                                     gridlocked |-> o.gridlocked]]]
    /\ UNCHANGED <<lattice, road_max_speed, placing, run, twin, cluster_sizes>>

\* run_single_simulation_with_type raises in a worker
worker_raise ==
    /\ sweep.phase = "batch"
    /\ \E i \in Running(sweep) :
        sweep' = [sweep EXCEPT !.tasks[i].state = "raised"]
    /\ UNCHANGED <<lattice, road_max_speed, placing, run, twin, cluster_sizes>>

Finished(sw) == {i \in DOMAIN sw.tasks : sw.tasks[i].state \in {"done", "raised"}}

\* a pool that hands results over as they complete
imap_unordered(sw) ==
    Finished(sw) \ {r.sim_index + 1 : r \in Range(sw.batch_results)}

\* pool.imap: the next result handed over is the one of the next task in
\* submission order, once that task has finished
imap(sw) == Finished(sw) \cap {Len(sw.batch_results) + 1}

\* list(pool.imap(...)) takes one more result; a raised run is raised again
\* in the parent, where nothing catches it
imap_next ==
    /\ sweep.phase = "batch"
    /\ \E k \in imap(sweep) :
        IF sweep.tasks[k].state = "raised"
        THEN sweep' = [sweep EXCEPT !.phase = "aborted"]
        ELSE sweep' = [sweep EXCEPT
                        !.batch_results = Append(@, sweep.tasks[k].result)]
    /\ UNCHANGED <<lattice, road_max_speed, placing, run, twin, cluster_sizes>>

\* overall_avg_velocity < 0.001, velocities in thousandths
early_termination(batch_results) ==
    SumVelocity(batch_results) < Len(batch_results)

\* the batch is complete: extend raw_results and decide on the next density
batch_end ==
    /\ sweep.phase = "batch"
    /\ Len(sweep.batch_results) = sweep.n_simulations
    /\ LET sw == [sweep EXCEPT !.phase = "loop",
                               !.raw_results = @ \o sweep.batch_results]
       IN  IF early_termination(sweep.batch_results)
           THEN sweep' = NextParam([sw EXCEPT
                    !.gridlocked_states[sweep.param_iter[sweep.p]] = TRUE])
           ELSE sweep' = NextDensity(sw)
    /\ UNCHANGED <<lattice, road_max_speed, placing, run, twin, cluster_sizes>>

\* after the loops: aggregate_results and save_results_generic
aggregate ==
    /\ sweep.phase = "loop"
    /\ sweep.p > Len(sweep.param_iter)
    /\ sweep' = [sweep EXCEPT !.phase = "saved"]
    /\ UNCHANGED <<lattice, road_max_speed, placing, run, twin, cluster_sizes>>

NextSweep ==
    \/ pool_open
    \/ worker_start
    \/ worker_finish
    \/ worker_raise
    \/ imap_next
    \/ batch_end
    \/ aggregate

SpecSweep == InitSweep /\ [][NextSweep]_vars

(***************************************************************************)
(* Two runs of one configuration with one seed (Simulation.__init__ calls  *)
(* np.random.seed(seed)): the second run is kept in twin.  Draws of the    *)
(* seeded generator are the same values in both runs; a draw made after    *)
(* np.random.seed(int(time.time())) of set_random_desination is any value  *)
(* in each run.                                                            *)
(***************************************************************************)
TwinFields == [grid |-> twin.grid, road_layout |-> twin.road_layout,
               underlying_grid |-> twin.underlying_grid]

InitTwin ==
    /\ \E geo \in Geometries, method \in {FREE_MOVEMENT, FIXED_DESTINATION} :
        LET G == Grid_init(geo[1], geo[2], method, Grid_default_max_speed)
        IN  /\ LatticeIs(G)
            /\ twin = [phase |-> "run", grid |-> G.grid,
                       road_layout |-> G.road_layout,
                       underlying_grid |-> G.underlying_grid,
                       cars |-> G.cars, moved_distances |-> <<>>]
    /\ pc = "init"
    /\ road_max_speed = 0
    /\ placing = NotInUse
    /\ run = NotInUse
    /\ sweep = NotInUse
    /\ cluster_sizes = <<>>

\* create_cars and grid.add_cars in both runs, on the same seeded draws
seeded_create_cars ==
    /\ pc = "init"
    /\ cars = <<>>
    /\ \E car_count \in 1 .. MaxCars, car_percentage_max_speed \in Percentages :
        LET follow_limit_count == (car_count * car_percentage_max_speed) \div 100
        IN  \E follow_limit_indices \in SUBSET (0 .. car_count - 1),
               positions \in [1 .. car_count -> RoadPositions],
               speeds \in [1 .. car_count -> MIN_SPEED .. MAX_SPEED] :
                /\ Cardinality(follow_limit_indices) = follow_limit_count
                /\ \A i, j \in 1 .. car_count : i # j => positions[i] # positions[j]
                /\ \A i \in 1 .. car_count :
                       (i - 1) \in follow_limit_indices => speeds[i] = MIN_SPEED
                /\ LET r == CreateLoop(GridFields, <<>>, 0, car_count,
                                       follow_limit_indices, positions, speeds)
                       t == CreateLoop(TwinFields, <<>>, 0, car_count,
                                       follow_limit_indices, positions, speeds)
                   IN  /\ grid' = r.G.grid
                       /\ road_layout' = r.G.road_layout
                       /\ underlying_grid' = r.G.underlying_grid
                       /\ cars' = add_cars(cars, r.cars)
                       /\ twin' = [twin EXCEPT
                                    !.grid = t.G.grid,
                                    !.road_layout = t.G.road_layout,
                                    !.underlying_grid = t.G.underlying_grid,
                                    !.cars = add_cars(twin.cars, t.cars)]
    /\ pc' = "run"
    /\ UNCHANGED <<size, blocks, rotary_method, max_speed, rotary_dict,
                   moved_distances, id, mover, distance, jammed>>
    /\ UNCHANGED <<road_max_speed, placing, run, sweep, cluster_sizes>>

\* one iteration of the loop of update_movement in both runs; the draw of
\* set_random_desination follows a reseeding from the wall clock in each run
seeded_update_movement ==
    /\ pc = "run"
    /\ id < Len(cars)
    /\ LET k == LoopCar(id)
       IN  \E choice \in Draws(cars[k]), twin_choice \in Draws(twin.cars[k]) :
            LET r == move(GridFields, cars[k], choice)
                t == move(TwinFields, twin.cars[k], twin_choice)
                before == IF id = 0 THEN [i \in 1 .. Len(cars) |-> 0]
                          ELSE moved_distances
                twin_before == IF id = 0 THEN [i \in 1 .. Len(twin.cars) |-> 0]
                               ELSE twin.moved_distances
            IN  /\ grid' = r.G.grid
                /\ road_layout' = r.G.road_layout
                /\ underlying_grid' = r.G.underlying_grid
                /\ cars' = [cars EXCEPT ![k] = r.car]
                /\ moved_distances' = [before EXCEPT ![k] = r.distance]
                /\ distance' = r.distance
                /\ mover' = k
                /\ twin' = [twin EXCEPT
                             !.grid = t.G.grid,
                             !.road_layout = t.G.road_layout,
                             !.underlying_grid = t.G.underlying_grid,
                             !.cars = [twin.cars EXCEPT ![k] = t.car],
                             !.moved_distances =
                                 [twin_before EXCEPT ![k] = t.distance]]
    /\ id' = IF id + 1 = Len(cars) THEN 0 ELSE id + 1
    /\ UNCHANGED pc
    /\ UNCHANGED <<size, blocks, rotary_method, max_speed, rotary_dict, jammed>>
    /\ UNCHANGED <<road_max_speed, placing, run, sweep, cluster_sizes>>

NextTwin == seeded_create_cars \/ seeded_update_movement

SpecTwin == InitTwin /\ [][NextTwin]_vars

(***************************************************************************)
(* Grid(grid_size, blocks_size, rotary_method) as a call: before the call  *)
(* size and blocks hold the arguments and no lattice exists.               *)
(***************************************************************************)
MaxGridSize == 8

\* the value of a marked cell of the jammed map, which np.zeros fills with 0
TRAFFIC_JAM == 1

\* get_jammed_positions: np.argwhere(self.jammed == TRAFFIC_JAM)
get_jammed_positions(jam) == {p \in DOMAIN jam : jam[p] = TRAFFIC_JAM}

InitBuild ==
    /\ size \in 1 .. MaxGridSize
    /\ blocks \in 1 .. MaxGridSize
    /\ rotary_method \in {FREE_MOVEMENT, FIXED_DESTINATION}
    /\ max_speed = Grid_default_max_speed
    /\ grid = <<>>
    /\ underlying_grid = <<>>
    /\ road_layout = <<>>
    /\ rotary_dict = <<>>
    /\ cars = <<>>
    /\ jammed = <<>>
    /\ moved_distances = <<>>
    /\ id = 0
    /\ mover = 0
    /\ distance = 0
    /\ pc = "build"
    /\ Idle

\* Grid.__init__ runs to its end and returns the grid
Grid_build ==
    /\ pc = "build"
    /\ LET G == Grid_init(size, blocks, rotary_method, max_speed)
       IN  /\ grid' = G.grid
           /\ underlying_grid' = G.underlying_grid
           /\ road_layout' = G.road_layout
           /\ rotary_dict' = G.rotary_dict
           /\ cars' = G.cars
           /\ jammed' = G.jammed
    /\ pc' = "init"
    /\ UNCHANGED <<size, blocks, rotary_method, max_speed, moved_distances, id,
                   mover, distance>>
    /\ UNCHANGED rest

NextBuild == Grid_build

SpecBuild == InitBuild /\ [][NextBuild]_vars

(***************************************************************************)
(* Simulation_2D.create_cars one iteration of its for loop at a time, on   *)
(* the 4x4 lattice, which has 8 road cells and 4 rotary cells.             *)
(***************************************************************************)
\* the arguments car_count and car_percentage_max_speed
PlacementInputs == {<<2, 0>>, <<2, 50>>, <<2, 100>>, <<9, 100>>}

InitCreate ==
    /\ LatticeIs(Grid_init(4, 4, FREE_MOVEMENT, Grid_default_max_speed))
    /\ pc = "init"
    /\ road_max_speed = 0
    /\ \E input \in PlacementInputs :
        LET car_count == input[1]
            follow_limit_count == (car_count * input[2]) \div 100
        IN  \E follow_limit_indices \in SUBSET (0 .. car_count - 1) :
                /\ Cardinality(follow_limit_indices) = follow_limit_count
                /\ placing = [phase |-> "loop",
                              car_count |-> car_count,
                              follow_limit_indices |-> follow_limit_indices,
                              i |-> 0,
                              cars |-> <<>>]
    /\ run = NotInUse
    /\ sweep = NotInUse
    /\ twin = NotInUse
    /\ cluster_sizes = <<>>

\* one iteration of the for loop: the while loop has drawn a cell that is
\* in ROAD_CELLS, and the car is built on it
create_cars_iteration ==
    /\ pc = "init"
    /\ placing.phase = "loop"
    /\ placing.i < placing.car_count
    /\ \E position \in RoadPositions, random_speed \in MIN_SPEED .. MAX_SPEED :
        LET follow_limit == placing.i \in placing.follow_limit_indices
            c == Car_init(GridFields, position, TRUE, follow_limit, random_speed)
        IN  /\ follow_limit => random_speed = MIN_SPEED
            /\ grid' = c.G.grid
            /\ road_layout' = c.G.road_layout
            /\ underlying_grid' = c.G.underlying_grid
            /\ placing' = [placing EXCEPT !.i = @ + 1,
                                          !.cars = Append(@, c.car)]
    /\ UNCHANGED <<size, blocks, rotary_method, max_speed, rotary_dict, cars,
                   moved_distances, id, mover, distance, pc, jammed>>
    /\ UNCHANGED <<road_max_speed, run, sweep, twin, cluster_sizes>>

\* the for loop is over: return cars, and the caller's grid.add_cars(cars)
create_cars_return ==
    /\ pc = "init"
    /\ placing.phase = "loop"
    /\ placing.i = placing.car_count
    /\ cars' = add_cars(cars, placing.cars)
    /\ placing' = [placing EXCEPT !.phase = "done"]
    /\ pc' = "run"
    /\ UNCHANGED <<size, blocks, rotary_method, max_speed, grid, underlying_grid,
                   road_layout, rotary_dict, moved_distances, id, mover,
                   distance, jammed>>
    /\ UNCHANGED <<road_max_speed, run, sweep, twin, cluster_sizes>>

NextCreate == create_cars_iteration \/ create_cars_return

\* a free road cell, when there is one, is drawn sooner or later
SpecCreate ==
    /\ InitCreate
    /\ [][NextCreate]_vars
    /\ WF_vars(create_cars_iteration)
    /\ WF_vars(create_cars_return)

(***************************************************************************)
(* The jam-cluster analysis of Grid (src/src/grid.py) as a function of the *)
(* jammed map: jammed_network builds an nx.Graph, analyze_cluster_sizes    *)
(* lists the sizes of its connected components.  A graph is a record of    *)
(* its nodes and its edges, an edge being the set of its two ends.         *)
(***************************************************************************)
ClusterGridSize == 3

InitCluster ==
    /\ \E jam \in [Cells(ClusterGridSize) -> {0, TRAFFIC_JAM}] :
        LET G == Grid_init(ClusterGridSize, 2, FREE_MOVEMENT, Grid_default_max_speed)
        IN  LatticeIs([G EXCEPT !.jammed = jam])
    /\ pc = "analysis"
    /\ Idle

\* the four cells tested around (x, y): (x, y - 1), (x, y + 1), (x - 1, y),
\* (x + 1, y), as they are written
neighbours(p) ==
    {<<p[1], p[2] - 1>>, <<p[1], p[2] + 1>>, <<p[1] - 1, p[2]>>, <<p[1] + 1, p[2]>>}

\* Grid.jammed_network: nodes enter the graph through add_edge only
jammed_network(jam) ==
    LET unique_jammed_positions == get_jammed_positions(jam)
        edges == UNION {{{p, q} : q \in neighbours(p) \cap unique_jammed_positions} :
                            p \in unique_jammed_positions}
    IN  [nodes |-> UNION edges, edges |-> edges]

\* the nodes reached from the set S
RECURSIVE Reach(_, _)
Reach(G, S) ==
    LET T == S \cup {q \in G.nodes : \E p \in S : {p, q} \in G.edges}
    IN  IF T = S THEN S ELSE Reach(G, T)

\* nx.connected_components(G)
connected_components(G) == {Reach(G, {p}) : p \in G.nodes}

\* the sizes of the sets of C, largest first
RECURSIVE SortedSizes(_)
SortedSizes(C) ==
    IF C = {} THEN <<>>
    ELSE LET c == CHOOSE c \in C : \A o \in C : Cardinality(o) <= Cardinality(c)
         IN  <<Cardinality(c)>> \o SortedSizes(C \ {c})

\* Grid.analyze_cluster_sizes
analyze_cluster_sizes(G) == SortedSizes(connected_components(G))

\* analyze_cluster_sizes(jammed_network()) on the grid's jammed map
analyze ==
    /\ pc = "analysis"
    /\ cluster_sizes' = analyze_cluster_sizes(jammed_network(jammed))
    /\ pc' = "analysed"
    /\ UNCHANGED <<size, blocks, rotary_method, max_speed, grid, underlying_grid,
                   road_layout, rotary_dict, cars, moved_distances, id, mover,
                   distance, jammed>>
    /\ UNCHANGED <<road_max_speed, placing, run, sweep, twin>>

NextCluster == analyze

SpecCluster == InitCluster /\ [][NextCluster]_vars

(***************************************************************************)
(* Vocabulary of the properties.                                           *)
(***************************************************************************)
CarIds == 1 .. Len(cars)

\* the travel direction of a road kind, as (row step, column step)
Direction(kind) ==
    CASE kind = VERTICAL_ROAD_VALUE_RIGHT -> <<-1, 0>>
      [] kind = VERTICAL_ROAD_VALUE_LEFT -> <<1, 0>>
      [] kind = HORIZONTAL_ROAD_VALUE_RIGHT -> <<0, 1>>
      [] kind = HORIZONTAL_ROAD_VALUE_LEFT -> <<0, -1>>

\* the cell n steps from p along d, on the torus
Shifted(p, d, n) == <<(p[1] + n * d[1]) % size, (p[2] + n * d[2]) % size>>

\* the n-th cell ahead of car c
Ahead(c, n) == Shifted(c.head_position, Direction(c.road_type), n)

\* the exit cell of a car on a rotary: one step to the right of its direction
ExitCell(c) ==
    LET d == Direction(c.road_type)
    IN  Shifted(c.head_position, <<d[2], -d[1]>>, 1)

\* the cell a car yields to before entering intersection cell q
\* (test_car_dianogal: a V_LEFT car heading for (5, 5) looks at (5, 6))
YieldCell(kind, q) ==
    CASE kind = VERTICAL_ROAD_VALUE_RIGHT -> Shifted(q, <<0, -1>>, 1)
      [] kind = VERTICAL_ROAD_VALUE_LEFT -> Shifted(q, <<0, 1>>, 1)
      [] kind = HORIZONTAL_ROAD_VALUE_RIGHT -> Shifted(q, <<-1, 0>>, 1)
      [] kind = HORIZONTAL_ROAD_VALUE_LEFT -> Shifted(q, <<1, 0>>, 1)

\* this step is a call of cars[k].move(), in a tick or directly
MoveCall(k) == mover' = k /\ (update_movement \/ car_move)

CarHeads == {p \in Cells(size) : grid[p] = CAR_HEAD}

(***************************************************************************)
(* Properties.                                                             *)
(***************************************************************************)
\* C1: in every state reached by create_cars and update_movement ticks no two
\* cars have the same head_position, the number of CAR_HEAD cells of the grid
\* equals len(grid.cars), and no step of a run changes the number of cars.
C1_DistinctHeadsAndCarCount ==
    /\ [](/\ \A i, j \in CarIds :
               i # j => cars[i].head_position # cars[j].head_position
          /\ Cardinality(CarHeads) = Len(cars))
    /\ [][pc = "run" => Len(cars') = Len(cars)]_vars

\* a tick of three cars in which one car was blocked and another advanced
C1_Witness ==
    /\ pc = "run" /\ id = 0 /\ Len(cars) = 3 /\ Len(moved_distances) = 3
    /\ \E i, j \in CarIds : moved_distances[i] = 0 /\ moved_distances[j] > 0

\* C2: after construction neither road_layout nor underlying_grid is ever
\* modified, and every cell of the dynamic grid holds its layout value or
\* CAR_HEAD.
C2_LayoutImmutable ==
    /\ [][road_layout' = road_layout /\ underlying_grid' = underlying_grid]_vars
    /\ [](\A p \in Cells(size) : grid[p] \in {road_layout[p], CAR_HEAD})

\* a car has moved onto a rotary cell, leaving its road cell behind
C2_Witness ==
    /\ pc = "run" /\ mover \in CarIds /\ distance = 1
    /\ cars[mover].on_rotary
    /\ grid[cars[mover].head_position] = CAR_HEAD
    /\ \E p \in Cells(size) : grid[p] \in ROAD_CELLS /\ Ahead([cars[mover] EXCEPT
           !.head_position = p], 1) = cars[mover].head_position

\* C3: for every car, on_rotary is true exactly when the layout cell under
\* its head is an intersection cell.
C3_OnRotaryIffIntersection ==
    \A i \in CarIds :
        cars[i].on_rotary <=>
            road_layout[cars[i].head_position] \in INTERSECTION_CELLS

\* after a tick one car stands on a rotary cell and another on a road cell
C3_Witness ==
    /\ pc = "run" /\ id = 0 /\ Len(moved_distances) = Len(cars)
    /\ \E i, j \in CarIds :
        /\ cars[i].on_rotary /\ moved_distances[i] = 1
        /\ ~cars[j].on_rotary
        /\ road_layout[cars[j].head_position] \in ROAD_CELLS

\* C4: one tick moves every car once, in insertion order and one after the
\* other: the step after id cars moves car id + 1 and no other car, on the
\* lattice the earlier cars left; its distance is entry id + 1 of the moves
\* vector, which has one entry per car.  A follower listed after its leader
\* advances into the cell the leader vacated in this tick; a follower listed
\* before its leader is blocked by the leader's old position.
C4_SequentialInsertionOrder ==
    [][update_movement =>
        LET k == id + 1
            c == cars[k]
        IN  /\ Len(cars') = Len(cars)
            /\ Len(moved_distances') = Len(cars)
            /\ \A j \in CarIds \ {k} : cars'[j] = cars[j]
            /\ \A j \in CarIds : j > k => moved_distances'[j] = 0
            /\ \A j \in CarIds : j < k => moved_distances'[j] = moved_distances[j]
            /\ moved_distances'[k] = distance'
            /\ id' = (id + 1) % Len(cars)
            /\ \A i \in CarIds \ {k} :
                (~c.on_rotary /\ ~cars[i].on_rotary
                 /\ cars[i].road_type = c.road_type) =>
                    \* the leader i has moved in this tick, from the cell ahead of k
                    /\ (i < k /\ moved_distances[i] >= 1
                        /\ cars[i].head_position = Ahead(c, moved_distances[i] + 1))
                            => /\ cars'[k].head_position # c.head_position
                               /\ c.max_speed = 1 =>
                                    cars'[k].head_position = Ahead(c, 1)
                    \* the leader i moves later in this tick
                    /\ (i > k /\ cars[i].head_position = Ahead(c, 1))
                            => /\ cars'[k] = c
                               /\ moved_distances'[k] = 0]_vars

\* a follower of speed 1, listed after its leader, stands on the cell the
\* leader left in this tick
C4_Witness ==
    /\ pc = "run" /\ Len(moved_distances) = Len(cars)
    /\ \E i, j \in CarIds :
        /\ i < j /\ (j <= id \/ id = 0)
        /\ ~cars[i].on_rotary /\ ~cars[j].on_rotary
        /\ cars[i].road_type = cars[j].road_type
        /\ cars[j].max_speed = 1 /\ moved_distances[j] = 1
        /\ moved_distances[i] >= 1
        /\ cars[i].head_position = Ahead(cars[j], moved_distances[i])

\* C5: a single car of speed v on a road with no intersection cell among its
\* next v cells moves exactly v cells (modulo N) and move() returns v; so a
\* V_UP car at row 0 with speed 1 moves to row N-1 of its column.
C5_FreeRunAdvancesMaxSpeed ==
    [][(update_movement /\ Len(cars) = 1 /\ ~cars[1].on_rotary
        /\ \A n \in 1 .. cars[1].max_speed :
               road_layout[Ahead(cars[1], n)] \notin INTERSECTION_CELLS)
            => /\ cars'[1].head_position = Ahead(cars[1], cars[1].max_speed)
               /\ moved_distances' = <<cars[1].max_speed>>
               /\ distance' = cars[1].max_speed]_vars

\* a lone V_UP car has just run its full speed across the edge onto row N-1
C5_Witness ==
    /\ pc = "run" /\ Len(cars) = 1 /\ mover = 1
    /\ cars[1].road_type = VERTICAL_ROAD_VALUE_RIGHT
    /\ ~cars[1].on_rotary
    /\ cars[1].head_position[1] = size - 1
    /\ distance = cars[1].max_speed
    /\ moved_distances = <<distance>>

\* C6: move() returns 1 whenever a car on a rotary advances one ring step or
\* leaves the rotary onto a road cell, and returns 0 only when the head of
\* the car did not change.
C6_RotaryMoveReturnsOne ==
    [][\A k \in CarIds : MoveCall(k) =>
        /\ (cars[k].on_rotary
            /\ cars'[k].head_position # cars[k].head_position) => distance' = 1
        /\ distance' = 0 => cars'[k].head_position = cars[k].head_position]_vars

\* C7: a car on a road whose first intersection cell lies n <= max_speed
\* cells ahead, behind free road cells, with the yield cell of that
\* intersection cell occupied, does not enter: it stops n - 1 cells ahead
\* (n = 1: head unchanged, move() returns 0).
C7_YieldsToOccupiedDiagonal ==
    [][\A k \in CarIds : (MoveCall(k) /\ ~cars[k].on_rotary) =>
        \A n \in 1 .. cars[k].max_speed :
            (/\ road_layout[Ahead(cars[k], n)] \in INTERSECTION_CELLS
             /\ \A m \in 1 .. n - 1 : grid[Ahead(cars[k], m)] \in ROAD_CELLS
             /\ grid[YieldCell(cars[k].road_type, Ahead(cars[k], n))] = CAR_HEAD)
                => /\ cars'[k].head_position = Ahead(cars[k], n - 1)
                   /\ ~cars'[k].on_rotary
                   /\ distance' = n - 1]_vars

\* a car has just been held on the last road cell before a free intersection
\* cell whose yield cell is occupied
C7_Witness ==
    /\ pc = "run" /\ mover \in CarIds /\ distance = 0
    /\ ~cars[mover].on_rotary
    /\ grid[Ahead(cars[mover], 1)] \in INTERSECTION_CELLS
    /\ grid[YieldCell(cars[mover].road_type, Ahead(cars[mover], 1))] = CAR_HEAD

\* C8: a FREE_MOVEMENT car on a rotary exits when its right-hand exit cell is
\* a free road cell; otherwise it takes one ring step exactly when the next
\* ring cell is not CAR_HEAD; when both fail the car and the lattice are
\* unchanged.
C8_FreeMovementExitFirst ==
    [][\A k \in CarIds :
        (MoveCall(k) /\ cars[k].on_rotary /\ cars[k].flag = FREE_MOVEMENT) =>
            LET c == cars[k]
                e == ExitCell(c)
                n == Ahead(c, 1)
            IN  /\ grid[e] \in ROAD_CELLS
                    => /\ cars'[k].head_position = e
                       /\ ~cars'[k].on_rotary
                       /\ grid'[e] = CAR_HEAD
                       /\ grid'[c.head_position] = road_layout[c.head_position]
                /\ (grid[e] \notin ROAD_CELLS /\ grid[n] # CAR_HEAD)
                    => /\ cars'[k].head_position = n
                       /\ cars'[k].on_rotary
                       /\ grid'[n] = CAR_HEAD
                       /\ grid'[c.head_position] = road_layout[c.head_position]
                /\ (grid[e] \notin ROAD_CELLS /\ grid[n] = CAR_HEAD)
                    => /\ cars' = cars
                       /\ grid' = grid
                       /\ distance' = 0]_vars

\* a FREE_MOVEMENT car on a rotary has just called move() with its exit cell
\* and its next ring cell both occupied
C8_Witness ==
    /\ pc = "test" /\ mover \in CarIds /\ distance = 0
    /\ cars[mover].on_rotary /\ cars[mover].flag = FREE_MOVEMENT
    /\ grid[ExitCell(cars[mover])] = CAR_HEAD
    /\ grid[Ahead(cars[mover], 1)] = CAR_HEAD

C10_CarsFollowConfiguredDiscipline ==
    pc = "run" => \A i \in CarIds : cars[i].flag = rotary_method

\* C11: in a headless run configured with road_max_speed = v the grid of the
\* run has max_speed = v, so that a car following the limit has ceiling v.
C11_GridSpeedIsConfigured ==
    road_max_speed # 0 => max_speed = road_max_speed

\* C12: a run is marked gridlocked and stopped at tick t only if the 50 most
\* recent ticks t-49..t all had no movement and all of them lie at or after
\* the warmup boundary.
C12_GridlockStreakAfterWarmup ==
    (run.phase = "returned" /\ run.result.gridlocked) =>
        /\ run.last_movement < run.step - (gridlock_threshold - 1)
        /\ run.step - (gridlock_threshold - 1) >= run.warmup_steps


\* C13: the densities run for an axis value are an ascending prefix of the
\* sorted density list, and once every replicate of a density has reported
\* gridlock no higher density of that axis value is run.
C13_AllGridlockedStopsHigherDensities ==
    \A i, j \in DOMAIN sweep.raw_results :
        LET r == sweep.raw_results[i]
            q == sweep.raw_results[j]
        IN  /\ (i < j /\ r.param = q.param) => r.density <= q.density
            /\ ~ /\ r.param = q.param
                  /\ r.density < q.density
                  /\ \A k \in DOMAIN sweep.raw_results :
                        (sweep.raw_results[k].param = r.param
                         /\ sweep.raw_results[k].density = r.density)
                            => sweep.raw_results[k].gridlocked

C16_ReturnedGridHasValidGeometry ==
    pc = "init" =>
        /\ size >= 2 * blocks
        /\ blocks % 2 = 0
        /\ blocks >= 4
        /\ size % blocks \in {0, blocks \div 2}
        /\ \A r \in DOMAIN rotary_dict : \A c \in DOMAIN rotary_dict[r] :
            /\ rotary_dict[r][c] \in Cells(size)
            /\ road_layout[rotary_dict[r][c]] = INTERSECTION_DRIVE

\* C17: create_cars always ends, with an error when more cars are asked for
\* than cells are free for spawning and with car_count cars otherwise.
C17_PlacementTerminates ==
    <>(\/ placing.phase = "error"
       \/ placing.phase = "done" /\ Len(cars) = placing.car_count)

\* C18: after every tick the jammed cells are exactly the cells occupied by
\* a car whose moved distance was 0 in that tick.
C18_JammedIffStationaryCar ==
    (pc = "run" /\ id = 0 /\ cars # <<>> /\ Len(moved_distances) = Len(cars)) =>
        get_jammed_positions(jammed) =
            {cars[k].head_position : k \in {c \in CarIds : moved_distances[c] = 0}}

\* the 4-neighbour graph with toroidal adjacency on the jammed cells
ToroidalGraph(jam) ==
    LET U == get_jammed_positions(jam)
        wrap(q) == <<q[1] % size, q[2] % size>>
    IN  [nodes |-> U,
         edges |-> UNION {{{p, wrap(q)} :
                              q \in {n \in neighbours(p) : wrap(n) \in U}} :
                            p \in U}]

\* C19: the analysis returns, largest first, the sizes of the connected
\* components of the toroidal 4-neighbour graph on the jammed cells, every
\* jammed cell being counted in one component.
C19_ClusterSizesOfToroidalComponents ==
    pc = "analysed" =>
        cluster_sizes = SortedSizes(connected_components(ToroidalGraph(jammed)))

\* C15: a replicate that raises aborts only its own run: the sweep is not
\* aborted by it, so the other runs and the aggregation and saving of the
\* completed runs still take place.
C15_ReplicateFailureKeepsSweep ==
    (\E i \in DOMAIN sweep.tasks : sweep.tasks[i].state = "raised")
        => sweep.phase # "aborted"

\* C20: under every interleaving of the workers the batch result list and
\* the raw results are in replicate-index order, the decision on a density
\* (the end of its batch, the gridlock flag of its axis value) is taken only
\* when all its replicates have finished and been collected, a worker's step
\* changes nothing but its own task, and the results are aggregated only
\* when no scheduled run is queued or running.
C20_OrderedResultsDecisionAfterBatch ==
    /\ [](/\ \A k \in DOMAIN sweep.batch_results :
                sweep.batch_results[k].sim_index = k - 1
          /\ \A k \in DOMAIN sweep.raw_results :
                sweep.raw_results[k].sim_index = (k - 1) % sweep.n_simulations
          /\ sweep.phase = "saved" =>
                /\ \A i \in DOMAIN sweep.tasks : sweep.tasks[i].state = "done"
                /\ Len(sweep.raw_results) % sweep.n_simulations = 0)
    /\ [][/\ ((sweep.phase = "batch" /\ sweep'.phase = "loop")
              \/ sweep'.gridlocked_states # sweep.gridlocked_states
              \/ sweep'.raw_results # sweep.raw_results) =>
                /\ \A i \in DOMAIN sweep.tasks : sweep.tasks[i].state = "done"
                /\ Len(sweep.batch_results) = sweep.n_simulations
                /\ sweep'.raw_results = sweep.raw_results \o sweep.batch_results
          /\ (worker_finish \/ worker_raise) =>
                /\ Cardinality({i \in DOMAIN sweep.tasks :
                                  sweep'.tasks[i] # sweep.tasks[i]}) = 1
                /\ sweep'.batch_results = sweep.batch_results
                /\ sweep'.raw_results = sweep.raw_results]_vars

\* the second replicate has finished while the first is still running, in a
\* batch that follows a completed one
C20_Witness ==
    /\ sweep.phase = "batch"
    /\ sweep.n_processes = 2
    /\ sweep.tasks[1].state = "running"
    /\ sweep.tasks[2].state = "done"
    /\ Len(sweep.raw_results) > 0

\* the cell beside q on the left of travel direction d, and on its right
LeftOf(q, d) == Shifted(q, <<-d[2], d[1]>>, 1)
RightOf(q, d) == Shifted(q, <<d[2], -d[1]>>, 1)

\* a road car whose next cell is a free intersection cell is moved
Approach(k) ==
    /\ MoveCall(k)
    /\ ~cars[k].on_rotary
    /\ grid[Ahead(cars[k], 1)] \in INTERSECTION_CELLS

\* C21 (as the code has it): for each road kind the cell consulted before
\* entering intersection cell q is q shifted one cell to the left-hand side
\* of the travel direction, the side opposite to the rotary exit: V_UP ->
\* column-1, V_DOWN -> column+1, H_RIGHT -> row-1, H_LEFT -> row+1, modulo N.
\* The car enters q exactly when that cell holds no car.
C21_DiagonalIsLeftOfTravel ==
    [][\A k \in CarIds : Approach(k) =>
        LET q == Ahead(cars[k], 1)
        IN  cars'[k].head_position = q
                <=> grid[LeftOf(q, Direction(cars[k].road_type))] # CAR_HEAD]_vars

\* C21 (as stated): the cell consulted is q shifted to the right-hand side
\* of the travel direction, the rotation the rotary exit uses.
C21_DiagonalIsRightOfTravel ==
    [][\A k \in CarIds : Approach(k) =>
        LET q == Ahead(cars[k], 1)
        IN  cars'[k].head_position = q
                <=> grid[RightOf(q, Direction(cars[k].road_type))] # CAR_HEAD]_vars

\* a car has just been held before a free intersection cell by a car on the
\* left of it while the cell on the right of it is free
C21_Witness ==
    /\ pc = "run" /\ mover \in CarIds /\ distance = 0
    /\ ~cars[mover].on_rotary
    /\ LET q == Ahead(cars[mover], 1)
           d == Direction(cars[mover].road_type)
       IN  /\ grid[q] \in INTERSECTION_CELLS
           /\ grid[LeftOf(q, d)] = CAR_HEAD
           /\ grid[RightOf(q, d)] # CAR_HEAD

\* car k is moved and takes a ring step: it is on a rotary before and after
\* the move and its head changes
RingAdvance(k) ==
    /\ MoveCall(k)
    /\ cars[k].on_rotary
    /\ cars'[k].on_rotary
    /\ cars'[k].head_position # cars[k].head_position

\* C22: each rotary appears once in the ring list, and a car whose head is
\* ring[i] and that takes a ring step has its new head on ring[(i+1) mod 4]
\* of the same ring (positions of the list counted from 0).
C22_RingOrderIsCirculationOrder ==
    /\ [](\A r, t \in DOMAIN rotary_dict :
            r # t => Range(rotary_dict[r]) \cap Range(rotary_dict[t]) = {})
    /\ [][\A k \in CarIds : RingAdvance(k) =>
            \E r \in DOMAIN rotary_dict : \E i \in 0 .. 3 :
                /\ rotary_dict[r][i + 1] = cars[k].head_position
                /\ rotary_dict[r][((i + 1) % 4) + 1] = cars'[k].head_position]_vars

\* C23: a move in which a car enters a rotary ends on the entry cell, the
\* first intersection cell ahead of the car, and returns exactly 1, whatever
\* the car's max_speed and the number of road cells it crossed before.
C23_RotaryEntryReturnsOne ==
    [][\A k \in CarIds :
        (MoveCall(k) /\ ~cars[k].on_rotary /\ cars'[k].on_rotary) =>
            /\ distance' = 1
            /\ road_layout[cars'[k].head_position] \in INTERSECTION_CELLS
            /\ \E n \in 1 .. cars[k].max_speed :
                /\ cars'[k].head_position = Ahead(cars[k], n)
                /\ \A m \in 1 .. n - 1 :
                       road_layout[Ahead(cars[k], m)] \in ROAD_CELLS]_vars

\* the only car of the lattice, of speed 2, has just entered a rotary and
\* its move returned 1
C23_Witness ==
    /\ pc = "run" /\ Len(cars) = 1 /\ mover = 1
    /\ cars[1].max_speed = 2
    /\ cars[1].on_rotary
    /\ distance = 1
    /\ moved_distances = <<1>>

\* C24: in a run that is not gridlocked the ticks averaged are those from
\* index max(floor(T * (1 - s)), floor(w * T)) on, for the steady-state
\* fraction s and the warmup fraction w of the sweep; the result is 0 when
\* no tick qualifies.
C24_SteadyStateWindow ==
    (run.phase = "returned" /\ ~run.result.gridlocked) =>
        LET T == run.steps
            start == Max({(T * (100 - run.steady_state_fraction)) \div 100,
                          (run.warmup_fraction * T) \div 100})
        IN  /\ run.metrics_history.count = IF start < T THEN T - start ELSE 0
            /\ start >= T => run.result.velocity = 0

\* ---------------------------------------------------------------------
\* DensityTracker: the metric record of one tick (density.py)

MaxHistory == 2

RECURSIVE sum(_)
\* sum(moved_cars) of the vector returned by update_movement
sum(moved_cars) ==
    IF moved_cars = <<>> THEN 0 ELSE Head(moved_cars) + sum(Tail(moved_cars))

\* the quotient a / b of two counts, kept exact as a fraction
Quotient(a, b) == [num |-> a, den |-> b]

\* the fields of the record of get_metrics that depend on the step counts;
\* total_cars and moving_cars are the counts of spec section 4.5
get_metrics(moved_cars, metrics_history) ==
    LET total_cars == Len(moved_cars)
        moving_cars == Cardinality({i \in DOMAIN moved_cars : moved_cars[i] > 0})
        velocity == IF total_cars > 0
                    THEN Quotient(moving_cars, total_cars)
                    ELSE Quotient(0, 1)
        queue_length == total_cars - moving_cars
    IN  [timestamp |-> Len(metrics_history),
         total_cars |-> total_cars,
         moving_cars |-> moving_cars,
         average_velocity |-> velocity,
         queue_length |-> queue_length]

\* DensityTracker(grid) for a lattice of total_cars cars
DensityTracker_init(total_cars) ==
    [phase |-> "tracking", total_cars |-> total_cars,
     moved_cars |-> [i \in 1 .. total_cars |-> 0], metrics_history |-> <<>>]

InitMetrics ==
    /\ RunLattice
    /\ road_max_speed = 0
    /\ placing = NotInUse
    /\ \E total_cars \in 0 .. MaxCars : run = DensityTracker_init(total_cars)
    /\ sweep = NotInUse
    /\ twin = NotInUse
    /\ cluster_sizes = <<>>

\* DensityTracker.update(moved_cars) after a tick whose step counts are
\* moved_cars
DensityTracker_update ==
    /\ run.phase = "tracking"
    /\ Len(run.metrics_history) < MaxHistory
    /\ \E moved_cars \in [1 .. run.total_cars -> 0 .. MaxSpeedBound] :
        run' = [run EXCEPT
                   !.moved_cars = moved_cars,
                   !.metrics_history =
                       Append(@, get_metrics(moved_cars, run.metrics_history))]
    /\ UNCHANGED <<lattice, road_max_speed, placing, sweep, twin, cluster_sizes>>

NextMetrics == DensityTracker_update

SpecMetrics == InitMetrics /\ [][NextMetrics]_vars

\* the record appended by the last update
LastMetrics == run.metrics_history[Len(run.metrics_history)]

\* C25: in every metric record average_velocity is the sum of the tick's
\* step counts divided by the number of cars (0 without cars), moving_cars
\* is the number of cars with a positive step count and queue_length is
\* total_cars - moving_cars.
C25_AverageVelocityIsCellsPerCar ==
    (run.phase = "tracking" /\ run.metrics_history # <<>>) =>
        LET metrics == LastMetrics
            moves == run.moved_cars
        IN  /\ metrics.total_cars = Len(moves)
            /\ metrics.moving_cars =
                   Cardinality({i \in DOMAIN moves : moves[i] > 0})
            /\ metrics.queue_length = metrics.total_cars - metrics.moving_cars
            /\ IF metrics.total_cars = 0
               THEN metrics.average_velocity.num = 0
               ELSE metrics.average_velocity.num * metrics.total_cars =
                        sum(moves) * metrics.average_velocity.den

\* ---------------------------------------------------------------------
\* Cars created through Car(grid, position) on any cell the constructor
\* accepts, a road cell or a rotary cell (car.py)

MaxPlacedCars == 2

\* the cells on which Car.__init__ does not raise ValueError
DrivablePositions ==
    {p \in Cells(size) : grid[p] \in ROAD_CELLS \/ grid[p] \in INTERSECTION_CELLS}

\* get_right binds its local road_type only for the four road kinds; for
\* any other self.road_type the `assert isinstance(road_type, int)` of
\* get_right raises UnboundLocalError. move() calls get_right, through
\* _exit_rotary, first thing for a car on a rotary.
get_right_raises(car) == car.road_type \notin ROAD_CELLS

move_raises(car) == car.on_rotary /\ get_right_raises(car)

Car_anywhere ==
    /\ pc \in {"init", "test"}
    /\ Len(cars) < MaxPlacedCars
    /\ \E position \in DrivablePositions, random_speed \in MIN_SPEED .. MAX_SPEED :
            LET c == Car_init(GridFields, position, TRUE, FALSE, random_speed)
            IN  /\ grid' = c.G.grid
                /\ road_layout' = c.G.road_layout
                /\ underlying_grid' = c.G.underlying_grid
                /\ cars' = add_cars(cars, <<c.car>>)
    /\ pc' = "test"
    /\ UNCHANGED <<size, blocks, rotary_method, max_speed, rotary_dict,
                   moved_distances, id, mover, distance, jammed>>
    /\ UNCHANGED rest

\* car.move() of one car: it returns as in car_move, or the exception of
\* get_right leaves the call before anything was written
Car_move ==
    /\ pc = "test"
    /\ \E k \in 1 .. Len(cars) :
        /\ mover' = k
        /\ IF move_raises(cars[k])
           THEN /\ pc' = "raised"
                /\ UNCHANGED <<grid, road_layout, underlying_grid, cars, distance>>
           ELSE /\ pc' = pc
                /\ \E choice \in Draws(cars[k]) :
                    LET r == move(GridFields, cars[k], choice)
                    IN  /\ grid' = r.G.grid
                        /\ road_layout' = r.G.road_layout
                        /\ underlying_grid' = r.G.underlying_grid
                        /\ cars' = [cars EXCEPT ![k] = r.car]
                        /\ distance' = r.distance
    /\ UNCHANGED <<size, blocks, rotary_method, max_speed, rotary_dict,
                   moved_distances, id, jammed>>
    /\ UNCHANGED rest

NextPlaced == Car_anywhere \/ Car_move

SpecPlaced == Init /\ [][NextPlaced]_vars

\* C26: a car created on a rotary cell has on_rotary = TRUE, and no move()
\* of a car raises: every call returns with an exit, a ring advance or no
\* movement.
C26_RotaryBornCarMoves ==
    /\ \A k \in CarIds :
           road_layout[cars[k].head_position] \in INTERSECTION_CELLS
               => cars[k].on_rotary
    /\ pc # "raised"

\* C27: during a run every car on a road cell has the road kind of its head
\* cell in the layout as road_type, and every car on a rotary has the
\* road_type whose right-hand exit cell is a road cell of the kind get_right
\* gives the car on exit.
C27_RoadTypeMatchesLayout ==
    pc = "run" =>
        \A k \in CarIds :
            LET c == cars[k]
            IN  IF road_layout[c.head_position] \in INTERSECTION_CELLS
                THEN /\ c.road_type \in ROAD_CELLS
                     /\ road_layout[ExitCell(c)] =
                            get_right(c, c.head_position).road_type
                ELSE c.road_type = road_layout[c.head_position]

\* a tick of two cars has ended: the first is on a rotary, the second on a
\* road, and both moved
C27_Witness ==
    /\ pc = "run" /\ id = 0 /\ Len(cars) = 2
    /\ cars[1].on_rotary
    /\ ~cars[2].on_rotary
    /\ moved_distances = <<1, 1>>

\* ---------------------------------------------------------------------
\* A run on a lattice whose lane strip is cut off by the edge: Grid(3, 4)
\* has one lane start, 2, and the strip [2, 3) is one cell wide, so that
\* row 2 and column 2 are single lanes crossing in one intersection cell

JamGeometry == <<3, 4>>

InitJam ==
    /\ \E method \in {FREE_MOVEMENT, FIXED_DESTINATION},
          speed \in MIN_SPEED .. MAX_SPEED :
           LatticeIs(Grid_init(JamGeometry[1], JamGeometry[2], method, speed))
    /\ pc = "init"
    /\ Idle

NextJam == create_cars \/ update_movement

SpecJam == InitJam /\ [][NextJam]_vars

\* car k would stay where it is if it were moved now
Blocked(k) ==
    move(GridFields, cars[k], None).car.head_position = cars[k].head_position

\* no car of the lattice can change its head_position
Gridlock ==
    /\ pc = "run"
    /\ cars # <<>>
    /\ \A k \in CarIds : cars[k].flag = FREE_MOVEMENT /\ Blocked(k)

\* C28: with FREE_MOVEMENT cars a move that leaves the head where it was
\* changes nothing on the lattice, so a tick that changes no head ends in the
\* state it began in, with every car blocked; and from a state in which
\* every car is blocked each later move of a tick leaves the cars as they
\* are, reports 0, and leaves every car blocked.
C28_GridlockIsAbsorbing ==
    [][\A k \in CarIds : (MoveCall(k) /\ pc = "run") =>
        /\ (cars[k].flag = FREE_MOVEMENT
                /\ cars'[k].head_position = cars[k].head_position)
            => (cars' = cars /\ grid' = grid /\ Blocked(k))
        /\ Gridlock =>
            (cars' = cars /\ grid' = grid /\ distance' = 0 /\ Gridlock')]_vars

\* a tick over a lattice on which no car can move has ended with every
\* step count 0
C28_Witness ==
    /\ Gridlock /\ id = 0 /\ mover = Len(cars)
    /\ \A k \in CarIds : moved_distances[k] = 0

\* car k is moved by _move_straight and its head changes
StraightMove(k) ==
    /\ MoveCall(k)
    /\ ~cars[k].on_rotary
    /\ cars'[k].head_position # cars[k].head_position

\* C29: a straight move ends on one of the max_speed cells ahead of the car,
\* and neither that cell nor any cell before it held CAR_HEAD when the car
\* moved.
C29_StraightMoveNeverPassesCar ==
    [][\A k \in CarIds : StraightMove(k) =>
        \E n \in 1 .. cars[k].max_speed :
            /\ cars'[k].head_position = Ahead(cars[k], n)
            /\ \A m \in 1 .. n : grid[Ahead(cars[k], m)] # CAR_HEAD]_vars

\* a car of speed 2 has advanced 1 cell only and stands right behind another
\* car of its lane
C29_Witness ==
    /\ pc = "run" /\ mover \in CarIds /\ distance = 1
    /\ cars[mover].max_speed = 2
    /\ ~cars[mover].on_rotary
    /\ \E j \in CarIds \ {mover} :
        /\ ~cars[j].on_rotary
        /\ cars[j].road_type = cars[mover].road_type
        /\ cars[j].head_position = Ahead(cars[mover], 1)

\* C30: in a run of one FREE_MOVEMENT car every move changes the head of the
\* car, and a car that is on a rotary cell leaves it in that move, through
\* the exit cell to the right of its direction.
C30_SingleCarNeverStops ==
    [][(Len(cars) = 1 /\ pc = "run" /\ MoveCall(1)
            /\ cars[1].flag = FREE_MOVEMENT) =>
        /\ cars'[1].head_position # cars[1].head_position
        /\ cars[1].on_rotary =>
            /\ ~cars'[1].on_rotary
            /\ cars'[1].head_position = ExitCell(cars[1])
            /\ road_layout[cars'[1].head_position] \in ROAD_CELLS]_vars

\* the only car of the lattice has just left the rotary: it is on a road
\* cell and its move returned 0
C30_Witness ==
    /\ pc = "run" /\ Len(cars) = 1 /\ mover = 1
    /\ ~cars[1].on_rotary
    /\ cars[1].flag = FREE_MOVEMENT
    /\ distance = 0
    /\ moved_distances = <<0>>

====
